---- MODULE Spec2Model ----
(***************************************************************************)
(* PdfVault backend (backend/server.js): an express application that       *)
(* stores uploaded PDF files in one flat directory (multer disk storage),  *)
(* lists them (GET /pdfs) and serves them (express.static on /pdfs).       *)
(*                                                                         *)
(* Strings are sequences of tokens; a token is a piece of text that the    *)
(* program never splits ("a", "-", "?", ".pdf", one decimal digit, ...).   *)
(* Concatenation of strings is concatenation of sequences.                 *)
(***************************************************************************)
EXTENDS Naturals, Sequences, FiniteSets, TLC

VARIABLES
    disk,   \* the directory UPLOAD_DIR: file name |-> bytes
    req     \* the POST /upload requests, by request number

vars == <<disk, req>>

-----------------------------------------------------------------------------
(* Bounds of the model *)

MaxReq == 2       \* upload requests in one run
MaxTime == 2      \* Date.now() reads 1 .. MaxTime (epoch milliseconds)
MaxChunks == 2    \* length of an upload body, in chunks
MaxStamp == 12    \* longest clock reading of the file name study

(* Program constants *)

port == 3000

Requests == 1..MaxReq

-----------------------------------------------------------------------------
(* Text helpers *)

Digit(d) ==
    CASE d = 0 -> "0" [] d = 1 -> "1" [] d = 2 -> "2" [] d = 3 -> "3"
      [] d = 4 -> "4" [] d = 5 -> "5" [] d = 6 -> "6" [] d = 7 -> "7"
      [] d = 8 -> "8" [] d = 9 -> "9"

RECURSIVE NumberToString(_)
\* JavaScript's conversion of a non-negative integer to a string, as the
\* operator + applies it to Date.now() and the template literal to port.
NumberToString(n) ==
    IF n < 10 THEN <<Digit(n)>>
    ELSE NumberToString(n \div 10) \o <<Digit(n % 10)>>

\* String.prototype.endsWith
EndsWith(s, suffix) ==
    /\ Len(s) >= Len(suffix)
    /\ SubSeq(s, Len(s) - Len(suffix) + 1, Len(s)) = suffix

\* String.prototype.startsWith
StartsWith(s, prefix) ==
    /\ Len(s) >= Len(prefix)
    /\ SubSeq(s, 1, Len(prefix)) = prefix

Drop(s, n) == SubSeq(s, n + 1, Len(s))

-----------------------------------------------------------------------------
(* Inputs *)

PdfMime == "application/pdf"
MimeTypes == {PdfMime, "text/plain"}

\* Original file names a client sends: "a.pdf", "a" and "a?.pdf".
OriginalNames == { <<"a", ".pdf">>, <<"a">>, <<"a", "?", ".pdf">> }

\* The body of upload request r: len chunks, each marked with r, so the
\* bodies of different requests differ.  0 is the byte of a hole.  Every body
\* is MaxChunks chunks long.
Content(r, len) == [i \in 1..len |-> r]

-----------------------------------------------------------------------------
(* Storage engine and upload middleware *)

\* Mutants of storage.filename: no separator; the original name alone;
\* seconds in place of milliseconds
filenameNoSeparator(ts, originalname) == NumberToString(ts) \o originalname

filenameNoStamp(ts, originalname) == originalname

filenameSeconds(ts, originalname) ==
    NumberToString(ts \div 1000) \o <<"-">> \o originalname

\* storage.filename: Date.now() + '-' + file.originalname
filename(ts, originalname) == NumberToString(ts) \o <<"-">> \o originalname

NoError == [kind |-> "none", message |-> ""]
Error(m) == [kind |-> "Error", message |-> m]
MulterError(m) == [kind |-> "MulterError", message |-> m]

\* upload.fileFilter: what it hands to cb
fileFilter(mimetype) ==
    IF mimetype # PdfMime
    THEN [error |-> Error("Only PDF files are allowed!"), accept |-> FALSE]
    ELSE [error |-> NoError, accept |-> TRUE]

\* .single('pdfFile'): a file part in any other field is LIMIT_UNEXPECTED_FILE
single(field) ==
    IF field # "pdfFile" THEN MulterError("Unexpected field") ELSE NoError

\* fs.createWriteStream(path) opens with flag 'w': the file is created, or
\* truncated when it exists.
OpenTruncate(d, f) == [g \in DOMAIN d \cup {f} |-> IF g = f THEN <<>> ELSE d[g]]

\* One write of the stream at its own offset pos (a hole is filled with 0).
WriteAt(bytes, pos, b) ==
    [i \in 1..(IF pos + 1 > Len(bytes) THEN pos + 1 ELSE Len(bytes)) |->
        IF i = pos + 1 THEN b
        ELSE IF i <= Len(bytes) THEN bytes[i] ELSE 0]

\* The storage engine's removal of an uploaded file after an error (fs.unlink)
Unlink(d, f) == [g \in DOMAIN d \ {f} |-> d[g]]

-----------------------------------------------------------------------------
(* Responses *)

Origin == <<"http://localhost:">> \o NumberToString(port)

\* `http://localhost:${port}/pdfs/${file}`
Url(file) == Origin \o <<"/pdfs", "/">> \o file

Response(status, headers, type) ==
    [status |-> status, headers |-> headers, type |-> type,
     success |-> FALSE, message |-> <<>>, filename |-> <<>>, url |-> <<>>,
     pdfs |-> {}, bytes |-> <<>>, location |-> <<>>]

NoResponse == Response(0, {}, "none")

\* res.status(s).json({ success: false, message })
Failure(status, headers, message) ==
    [Response(status, headers, "json") EXCEPT !.message = message]

\* Mutant of the upload callback: the two error branches exchange their status
uploadCallbackSwapped(err, file, headers) ==
    IF err.kind = "MulterError"
    THEN Failure(400, headers, <<"Multer error: ", err.message>>)
    ELSE IF err.kind # "none"
    THEN Failure(500, headers, <<err.message>>)
    ELSE IF ~file.present
    THEN Failure(400, headers, <<"No file selected for upload.">>)
    ELSE [Response(200, headers, "json") EXCEPT
            !.success = TRUE,
            !.message = <<"PDF uploaded successfully!">>,
            !.filename = file.filename,
            !.url = Url(file.filename)]

\* The callback handed to upload(req, res, cb) in app.post('/upload').
\* file is req.file: [present, filename].
uploadCallback(err, file, headers) ==
    IF err.kind = "MulterError"
    THEN Failure(500, headers, <<"Multer error: ", err.message>>)
    ELSE IF err.kind # "none"
    THEN Failure(400, headers, <<err.message>>)
    ELSE IF ~file.present
    THEN Failure(400, headers, <<"No file selected for upload.">>)
    ELSE [Response(200, headers, "json") EXCEPT
            !.success = TRUE,
            !.message = <<"PDF uploaded successfully!">>,
            !.filename = file.filename,
            !.url = Url(file.filename)]

NoFile == [present |-> FALSE, filename |-> <<>>]
File(f) == [present |-> TRUE, filename |-> f]

\* Mutants of pdfList: no filter; the name without its timestamp prefix
pdfListAll(files) == { [name |-> file, url |-> Url(file)] : file \in files }

pdfListStripped(files) ==
    { [name |-> Drop(file, CHOOSE i \in 1..Len(file) :
                             /\ file[i] = "-"
                             /\ \A j \in 1..(i - 1) : file[j] # "-"),
       url |-> Url(file)] :
        file \in { f \in files : EndsWith(f, <<".pdf">>) } }

\* pdfList of app.get('/pdfs'): files is what fs.readdir returned.  The order
\* of a directory listing is not defined, so the list is kept as a set.
pdfList(files) ==
    { [name |-> file, url |-> Url(file)] :
        file \in { f \in files : EndsWith(f, <<".pdf">>) } }

\* The callback handed to fs.readdir in app.get('/pdfs')
listCallback(err, files, headers) ==
    IF err
    THEN Failure(500, headers, <<"Failed to retrieve files.">>)
    ELSE [Response(200, headers, "json") EXCEPT
            !.success = TRUE, !.pdfs = pdfList(files)]

-----------------------------------------------------------------------------
(* The application: middleware and routes in the order they are registered *)

\* The headers the first middleware sets
CorsHeaders ==
    { <<"Access-Control-Allow-Origin", "*">>,
      <<"Access-Control-Allow-Methods", "GET, POST">>,
      <<"Access-Control-Allow-Headers", "Content-Type">> }

\* Mutant of the registration order: the static server before the CORS headers
appStaticFirst == <<"static", "cors", "root", "upload", "list">>

\* app.use(cors), app.use('/pdfs', static), app.get('/'), app.post('/upload'),
\* app.get('/pdfs')
app == <<"cors", "static", "root", "upload", "list">>

\* The path of a request target: what precedes the query string
Pathname(target) ==
    LET q == { i \in 1..Len(target) : target[i] = "?" }
    IN  IF q = {} THEN target
        ELSE SubSeq(target, 1, (CHOOSE i \in q : \A j \in q : i <= j) - 1)

\* What a client requests for a URL of this server: the URL without its origin
Target(url) == Drop(url, Len(Origin))

\* Percent-encoding of a path segment and its decoding by the static server
Encode(s) == [i \in 1..Len(s) |-> IF s[i] = "?" THEN "%3F" ELSE s[i]]
Decode(s) == [i \in 1..Len(s) |-> IF s[i] = "%3F" THEN "?" ELSE s[i]]

\* A route path matches with or without a trailing slash (routing is not strict)
RouteMatch(path, route) == path = route \/ path = route \o <<"/">>

\* express.static(UPLOAD_DIR) mounted on /pdfs; type "next" is a call of next().
serveStatic(method, target, headers, d) ==
    LET path == Pathname(target)
        rest == Drop(path, 1)
    IN  IF method # "GET" \/ ~StartsWith(path, <<"/pdfs">>)
        THEN Response(0, headers, "next")
        ELSE IF rest = <<>>
        \* the mount point itself is the directory: redirect to /pdfs/
        THEN [Response(301, headers, "html") EXCEPT
                !.location = path \o <<"/">>]
        ELSE IF rest = <<"/">>
        \* the directory's index.html: there is none
        THEN Response(0, headers, "next")
        ELSE IF Decode(Drop(rest, 1)) \in DOMAIN d
        THEN [Response(200, headers, "file") EXCEPT
                !.bytes = d[Decode(Drop(rest, 1))]]
        ELSE Response(0, headers, "next")

RECURSIVE Run(_, _, _, _, _)
\* The request runs down the stack from entry i.  The result is the response,
\* or type "upload" when the request reaches the upload handler.
Run(i, method, target, headers, d) ==
    LET path == Pathname(target)
        next == Run(i + 1, method, target, headers, d)
    IN  IF i > Len(app)
        THEN Response(404, headers, "html")
        ELSE CASE app[i] = "cors" ->
                    Run(i + 1, method, target, headers \cup CorsHeaders, d)
               [] app[i] = "static" ->
                    LET s == serveStatic(method, target, headers, d)
                    IN  IF s.type = "next" THEN next ELSE s
               [] app[i] = "root" ->
                    IF method = "GET" /\ path = <<"/">>
                    THEN Response(200, headers, "html") ELSE next
               [] app[i] = "upload" ->
                    IF method = "POST" /\ RouteMatch(path, <<"/upload">>)
                    THEN Response(0, headers, "upload") ELSE next
               [] app[i] = "list" ->
                    IF method = "GET" /\ RouteMatch(path, <<"/pdfs">>)
                    THEN listCallback(FALSE, DOMAIN d, headers) ELSE next

Handle(method, target, d) == Run(1, method, target, {}, d)

-----------------------------------------------------------------------------
(* State *)

\* An upload request.  pc: "idle" (not sent), "writing" (the file part was
\* accepted and its write stream is open), "done" (answered).  ts is the
\* clock reading its file name was made from, pos the number of chunks its
\* stream has written, orphan whether its open file was unlinked meanwhile,
\* res its response (before the answer: the headers set so far).
IdleReq ==
    [pc |-> "idle", field |-> "none", mimetype |-> "none",
     originalname |-> <<>>, len |-> 0, ts |-> 0, filename |-> <<>>,
     pos |-> 0, orphan |-> FALSE, res |-> NoResponse]

\* fs.existsSync / fs.mkdirSync at startup: a fresh, empty directory
Init ==
    /\ disk = <<>>
    /\ req = [r \in Requests |-> IdleReq]

\* Requests are numbered in the order they arrive.
Arrives(r) ==
    /\ req[r].pc = "idle"
    /\ IF r = 1 THEN TRUE ELSE req[r - 1].pc # "idle"

\* The upload request as it reaches the upload handler
Entry == Handle("POST", <<"/upload">>, disk)

\* What Date.now() may return: the clock does not run backwards, and requests
\* that arrive within one millisecond read the same value.
Clock ==
    { t \in 1..MaxTime : \A r \in Requests : req[r].ts <= t }

Answer(r, res) == [req[r] EXCEPT !.pc = "done", !.res = res]

-----------------------------------------------------------------------------
(* Actions *)

\* POST /upload without a file part (or not multipart at all)
PostNoFile(r) ==
    /\ Arrives(r)
    /\ Entry.type = "upload"
    /\ req' = [req EXCEPT ![r] =
                 Answer(r, uploadCallback(NoError, NoFile, Entry.headers))]
    /\ UNCHANGED disk

\* POST /upload with a body the multipart parser gives up on before any file
PostMalformed(r) ==
    /\ Arrives(r)
    /\ Entry.type = "upload"
    /\ req' = [req EXCEPT ![r] =
                 Answer(r, uploadCallback(Error("Unexpected end of form"),
                                          NoFile, Entry.headers))]
    /\ UNCHANGED disk

\* POST /upload with a file part: the field check of .single, the
\* fileFilter, then the storage engine names the file and opens it.
PostFile(r) ==
    /\ Arrives(r)
    /\ Entry.type = "upload"
    /\ \E field \in {"pdfFile", "other"}, mimetype \in MimeTypes :
         LET limit == single(field)
             filter == fileFilter(mimetype)
             seen == [req[r] EXCEPT !.field = field, !.mimetype = mimetype]
         IN  IF limit.kind # "none"
             THEN /\ req' = [req EXCEPT ![r] =
                      [seen EXCEPT !.pc = "done",
                         !.res = uploadCallback(limit, NoFile, Entry.headers)]]
                  /\ UNCHANGED disk
             ELSE IF filter.error.kind # "none"
             THEN /\ req' = [req EXCEPT ![r] =
                      [seen EXCEPT !.pc = "done",
                         !.res = uploadCallback(filter.error, NoFile,
                                                Entry.headers)]]
                  /\ UNCHANGED disk
             ELSE IF ~filter.accept
             THEN /\ req' = [req EXCEPT ![r] =
                      [seen EXCEPT !.pc = "done",
                         !.res = uploadCallback(NoError, NoFile,
                                                Entry.headers)]]
                  /\ UNCHANGED disk
             ELSE \E originalname \in OriginalNames, len \in {MaxChunks},
                     now \in Clock :
                    LET f == filename(now, originalname)
                    IN  /\ req' = [req EXCEPT ![r] =
                              [seen EXCEPT !.pc = "writing",
                                 !.originalname = originalname,
                                 !.len = len, !.ts = now, !.filename = f,
                                 !.res = [NoResponse EXCEPT
                                            !.headers = Entry.headers]]]
                        /\ disk' = OpenTruncate(disk, f)

\* The write stream of r writes its next chunk.
WriteChunk(r) ==
    /\ req[r].pc = "writing"
    /\ req[r].pos < req[r].len
    /\ req' = [req EXCEPT ![r].pos = @ + 1]
    /\ disk' = IF req[r].orphan THEN disk
               ELSE [disk EXCEPT ![req[r].filename] =
                       WriteAt(@, req[r].pos,
                               Content(r, req[r].len)[req[r].pos + 1])]

\* A write of the stream fails (disk full, ...): the storage engine hands the
\* error on, and what was written stays.
WriteFails(r) ==
    /\ req[r].pc = "writing"
    /\ req[r].pos < req[r].len
    /\ req' = [req EXCEPT ![r] =
                 Answer(r, uploadCallback(Error("ENOSPC: no space left on device, write"),
                                          NoFile, req[r].res.headers))]
    /\ UNCHANGED disk

\* The file is written and the request ends: req.file is set.
Complete(r) ==
    /\ req[r].pc = "writing"
    /\ req[r].pos = req[r].len
    /\ req' = [req EXCEPT ![r] =
                 Answer(r, uploadCallback(NoError, File(req[r].filename),
                                          req[r].res.headers))]
    /\ UNCHANGED disk

\* The file is written, and the body holds one more file part
\* (LIMIT_UNEXPECTED_FILE): the uploaded file is removed by its path.
AbortAfterWrite(r) ==
    /\ req[r].pc = "writing"
    /\ req[r].pos = req[r].len
    /\ \E err \in {MulterError("Unexpected field")} :
         req' = [q \in Requests |->
                   IF q = r
                   THEN Answer(r, uploadCallback(err, NoFile,
                                                 req[r].res.headers))
                   ELSE IF req[q].pc = "writing"
                           /\ req[q].filename = req[r].filename
                   THEN [req[q] EXCEPT !.orphan = TRUE]
                   ELSE req[q]]
    /\ disk' = Unlink(disk, req[r].filename)

\* A client that follows a redirect, as fetch and browsers do
ClientGet(target, d) ==
    LET first == Handle("GET", target, d)
    IN  IF first.status = 301 THEN Handle("GET", first.location, d) ELSE first

\* The URLs the upload handler has handed out
KnownUrls == { req[r].res.url : r \in { q \in Requests : req[q].res.success } }

\* What a client asks for
GetTargets ==
    { <<"/">>, <<"/pdfs">>, <<"/pdfs", "/">>, <<"/other">> }
      \cup { Target(u) : u \in KnownUrls }
      \cup { <<"/pdfs", "/">> \o Encode(f) : f \in DOMAIN disk }

\* GET of any target: the handlers of GET /, GET /pdfs and the static server
\* read the directory and write nothing.  The response to target is
\* Handle("GET", target, disk).
Get ==
    UNCHANGED vars

Next ==
    \/ \E r \in Requests : PostNoFile(r)
    \/ \E r \in Requests : PostMalformed(r)
    \/ \E r \in Requests : PostFile(r)
    \/ \E r \in Requests : WriteChunk(r)
    \/ \E r \in Requests : WriteFails(r)
    \/ \E r \in Requests : Complete(r)
    \/ \E r \in Requests : AbortAfterWrite(r)
    \/ Get

Spec == Init /\ [][Next]_vars

-----------------------------------------------------------------------------
(* The file name study: the storage engine names the files of two uploads. *)

\* Original names that start with digits or hold hyphens
StudyNames ==
    { <<"a">>, <<"1", "-", "a">>, <<"-", "a">>, <<"1", "a">>, <<"1">>,
      <<"a", "-", "1">> }

Pair == {1, 2}

\* The storage engine names the file of request r at clock reading ts.
NameFile(r) ==
    /\ r \in Pair
    /\ Arrives(r)
    /\ \E ts \in 1..MaxStamp, originalname \in StudyNames :
         req' = [req EXCEPT ![r] =
                   [@ EXCEPT !.pc = "writing", !.field = "pdfFile",
                      !.mimetype = PdfMime, !.originalname = originalname,
                      !.ts = ts, !.filename = filename(ts, originalname)]]
    /\ UNCHANGED disk

NextNames == \E r \in Requests : NameFile(r)

SpecNames == Init /\ [][NextNames]_vars

-----------------------------------------------------------------------------
(* Vocabulary of the claims *)

Sent(r) == req[r].pc # "idle"
Done(r) == req[r].pc = "done"
Succeeded(r) == Done(r) /\ req[r].res.success
Failed(r) == Done(r) /\ ~req[r].res.success
\* The file part of r was accepted and named.
Accepted(r) == req[r].ts # 0
\* <epoch-millis>-<original name>
GeneratedName(r) == NumberToString(req[r].ts) \o <<"-">> \o req[r].originalname
\* r and q were named in the same millisecond with the same original name.
Collide(r, q) ==
    /\ Accepted(r) /\ Accepted(q)
    /\ req[r].ts = req[q].ts
    /\ req[r].originalname = req[q].originalname
Alone(r) == \A q \in Requests \ {r} : ~Collide(r, q)
AllowOrigin == <<"Access-Control-Allow-Origin", "*">>
\* What GET /pdfs gives a client now
Listing == ClientGet(<<"/pdfs">>, disk)
Listed == { e.name : e \in Listing.pdfs }
\* What GET /pdfs/<name> gives a client now
Fetch(name) == ClientGet(<<"/pdfs", "/">> \o Encode(name), disk)

-----------------------------------------------------------------------------
(* Claims *)

\* C1: every upload answered with success has status 200 and the file name
\* <epoch-millis>-<original name>, and a GET of the returned url, and of the
\* url of every name GET /pdfs returns, answers 200 with the uploaded bytes,
\* in every reachable state (uploads in progress included).
C1_RoundTrip ==
    /\ \A r \in Requests :
         Succeeded(r) =>
           /\ req[r].res.status = 200
           /\ req[r].res.filename = GeneratedName(r)
           /\ LET g == ClientGet(Target(req[r].res.url), disk)
              IN  g.status = 200 /\ g.bytes = Content(r, req[r].len)
    /\ \A e \in Listing.pdfs :
         LET g == ClientGet(Target(e.url), disk)
         IN  /\ g.status = 200
             /\ \E r \in Requests :
                  /\ Accepted(r)
                  /\ req[r].filename = e.name
                  /\ g.bytes = Content(r, req[r].len)

\* The uploads sent so far all succeeded, under pairwise distinct file names.
AllSucceeded ==
    /\ \A r \in Requests : Sent(r) => Succeeded(r)
    /\ \A r, q \in Requests :
         Sent(r) /\ Sent(q) /\ r # q => req[r].filename # req[q].filename

\* GET /pdfs lists one entry per upload sent, each with a name and a url.
ListsEveryUpload ==
    /\ Listing.status = 200
    /\ Cardinality(Listing.pdfs) = Cardinality({ r \in Requests : Sent(r) })
    /\ Listed = { req[r].filename : r \in { q \in Requests : Sent(q) } }
    /\ \A e \in Listing.pdfs : e.name # <<>> /\ e.url # <<>>

\* C2 as stated: from an empty directory, after N uploads that all succeeded
\* under pairwise distinct file names, GET /pdfs lists exactly N entries, one
\* per upload.
C2_ListsAllUploads == AllSucceeded => ListsEveryUpload

\* C2, amended: ... and whose original names all end with ".pdf" ...
C2_ListsPdfUploads ==
    /\ AllSucceeded
    /\ \A r \in Requests :
         Sent(r) => req[r].originalname[Len(req[r].originalname)] = ".pdf"
    => ListsEveryUpload

C2_Witness ==
    /\ AllSucceeded
    /\ \A r \in Requests : Sent(r) /\ EndsWith(req[r].originalname, <<".pdf">>)
    /\ Cardinality(Listing.pdfs) = MaxReq

\* C3: an upload answered with success has added one file to the directory
\* and an upload answered with a failure has left the directory as it was.
\* Stated for the uploads whose file name no other upload shares, where the
\* file an upload adds is the file under its name.
C3_SideEffects ==
    \A r \in Requests :
      Alone(r) =>
        /\ Succeeded(r) => req[r].filename \in DOMAIN disk
        /\ Failed(r) /\ Accepted(r) => req[r].filename \notin DOMAIN disk

\* C4: an upload that does not succeed is answered with JSON
\* {success:false, message}, with status 500 exactly for the upload library's
\* own errors and status 400 otherwise (no file part: "No file selected for
\* upload."; a declared type other than application/pdf; a parse error); no
\* failed upload is answered with a 2xx status.
C4_FailureStatus ==
    \A r \in Requests :
      Done(r) =>
        /\ req[r].res.type = "json"
        /\ req[r].res.success <=> req[r].res.status = 200
        /\ ~req[r].res.success =>
             /\ req[r].res.status \in {400, 500}
             /\ req[r].res.message # <<>>
             /\ req[r].res.status = 500
                  <=> req[r].res.message[1] = "Multer error: "
             /\ req[r].field = "other" => req[r].res.status = 500
             /\ req[r].field = "pdfFile" /\ req[r].mimetype # PdfMime
                  => req[r].res.status = 400
             /\ req[r].field = "none" =>
                  /\ req[r].res.status = 400
                  /\ req[r].res.message
                       \in { <<"No file selected for upload.">>,
                             <<"Unexpected end of form">> }

C4_Witness ==
    \E r, q \in Requests :
      /\ Failed(r) /\ req[r].res.status = 500
      /\ Failed(q) /\ req[q].res.message = <<"No file selected for upload.">>

\* C5: every response, on every route and for every outcome, carries
\* Access-Control-Allow-Origin: *.
C5_AllowOrigin ==
    /\ \A r \in Requests : Done(r) => AllowOrigin \in req[r].res.headers
    /\ \A target \in GetTargets :
         LET first == Handle("GET", target, disk)
         IN  /\ AllowOrigin \in first.headers
             /\ first.status = 301 =>
                  AllowOrigin \in Handle("GET", first.location, disk).headers

C5_Witness ==
    /\ \E r, q \in Requests :
         /\ Succeeded(r) /\ AllowOrigin \in req[r].res.headers
         /\ Failed(q) /\ AllowOrigin \in req[q].res.headers
    /\ { Handle("GET", target, disk).status : target \in GetTargets }
         = {200, 301, 404}

\* C6: GET /pdfs returns exactly the directory entries whose name ends with
\* ".pdf"; a stored file without that suffix is not listed, and
\* GET /pdfs/<its name> returns it.
C6_ListingFilter ==
    LET list == Listing
        names == { e.name : e \in list.pdfs }
    IN  /\ list.status = 200
        /\ names = { f \in DOMAIN disk : f[Len(f)] = ".pdf" }
        /\ \A f \in DOMAIN disk :
             f[Len(f)] # ".pdf" =>
               LET g == Fetch(f)
               IN  f \notin names /\ g.status = 200 /\ g.bytes = disk[f]

C6_Witness ==
    /\ \E f \in DOMAIN disk : f[Len(f)] # ".pdf" /\ Fetch(f).type = "file"
    /\ Cardinality(Listing.pdfs) = 1
    /\ Cardinality(DOMAIN disk) = 2

\* The step is one of upload request r.
Acts(r) == req'[r].pc # req[r].pc \/ req'[r].pos # req[r].pos

\* The files the step creates, changes or removes
Touched ==
    { f \in DOMAIN disk \cup DOMAIN disk' :
        \/ f \notin DOMAIN disk
        \/ f \notin DOMAIN disk'
        \/ disk'[f] # disk[f] }

C9_OnlyCompleteUploads ==
    \A f \in DOMAIN disk :
      \E r \in Requests :
        /\ Succeeded(r)
        /\ req[r].mimetype = PdfMime
        /\ req[r].filename = f
        /\ disk[f] = Content(r, req[r].len)

\* C10: two uploads get the same file name exactly when they have the same
\* millisecond and the same original name, also for original names that
\* start with digits or hold hyphens.
C10_Injective ==
    \A r, q \in Requests :
      Accepted(r) /\ Accepted(q) =>
        (req[r].filename = req[q].filename
           <=> req[r].ts = req[q].ts
               /\ req[r].originalname = req[q].originalname)

C10_Witness ==
    /\ req[1].ts = 1 /\ req[1].originalname = <<"1", "-", "a">>
    /\ req[2].ts = 11 /\ req[2].originalname = <<"-", "a">>
    /\ req[1].filename # req[2].filename

====
